---- MODULE Spec2Model ----
(***************************************************************************)
(* The event filter and relay engine of bot.py: the scope filter           *)
(* guild_is_watched, the three gateway event handlers on_member_join,      *)
(* on_member_update and on_voice_state_update, and the dispatcher relay.   *)
(*                                                                         *)
(* Every delivered gateway event runs as its own asyncio task.  A task     *)
(* gives up the event loop only at an await that performs a remote call:   *)
(* guild.fetch_member (line 70), client.fetch_channel (line 49) and        *)
(* ch.send (line 56).  The actions below cut each handler at those         *)
(* awaits, and additionally where guild_is_watched returns True and at     *)
(* the head of the loop of on_member_update; the extra cuts add no         *)
(* behaviour because the engine writes no shared state between two awaits. *)
(* The client's channel cache is maintained by the gateway client, not by  *)
(* the engine, and is taken as it stands when the run begins.              *)
(***************************************************************************)
EXTENDS Integers, Sequences, FiniteSets, TLC

\* Number of gateway events delivered in one run.
MaxEvents == 2

\* Identifier universes the inputs are drawn from.
GuildIds == {1, 2}
TextChannelIds == {41, 42}
VoiceChannelIds == {98, 99}

\* None, for a channel reference that is absent.
NoChannel == 0

Events == 1..MaxEvents

\* Classes of channel objects a lookup can resolve to; "None" is a miss.
ChannelKinds == {"TextChannel", "ForumChannel", "CategoryChannel", "VoiceChannel"}

\* Exceptions a remote call can raise.  NotFound and Forbidden are
\* subclasses of discord.HTTPException; TimeoutError (asyncio.TimeoutError,
\* a transport failure that is no HTTP response) is not.
Exceptions == {"NotFound", "Forbidden", "HTTPException", "TimeoutError"}

VARIABLES
    watchGuilds,    \* WATCH_GUILD_IDS
    watchText,      \* WATCH_TEXT_CHANNEL_IDS
    watchVoice,     \* WATCH_VOICE_CHANNEL_IDS
    chCache,        \* what client.get_channel(RELAY_CHANNEL_ID) returns
    remote,         \* the channel RELAY_CHANNEL_ID names on the platform
    handlers,       \* one task per delivered event
    delivered,      \* number of events delivered so far
    sendLog         \* the messages posted to the relay channel, in order

vars == <<watchGuilds, watchText, watchVoice, chCache, remote, handlers,
          delivered, sendLog>>

config == <<watchGuilds, watchText, watchVoice, remote>>

(***************************************************************************)
(* Inputs                                                                  *)
(***************************************************************************)

\* What after.guild.get_channel(ch_id) and ch.permissions_for(...) give for
\* one watched channel of a member-update event: the class of the resolved
\* object ("None" when the guild has no such channel), whether computing
\* the two permission values succeeds, and the two view_channel values.
ViewOf(k, c, b, a) == [kind |-> k, computes |-> c, before_can |-> b, after_can |-> a]

NoView == ViewOf("None", TRUE, FALSE, FALSE)

ChannelViews ==
    {NoView}
    \cup {ViewOf(k, FALSE, FALSE, FALSE) : k \in ChannelKinds}
    \cup {ViewOf(k, TRUE, b, a) : k \in ChannelKinds, b \in BOOLEAN, a \in BOOLEAN}

\* The member gains access to a channel in an update: the channel is of a
\* kind that can be listed, and the member's view permission is false
\* before the update and true after it.
Gains(v) ==
    /\ v.kind \in {"TextChannel", "ForumChannel", "CategoryChannel"}
    /\ v.computes
    /\ v.before_can = FALSE
    /\ v.after_can = TRUE

\* Line 13: the id of the output channel (the value stands for whatever
\* the environment sets; it is the id of no watched channel here).
RELAY_CHANNEL_ID == 7

\* A posted message: the event it reports, its subject, and the id of the
\* channel send was called on.
Message(e, subject, target) == [event |-> e, about |-> subject, to |-> target]

VoiceRefs == {NoChannel} \cup VoiceChannelIds

FetchMemberOutcomes == {"ok"} \cup Exceptions

\* fetch_channel succeeds only when the channel exists, and reports
\* NotFound only when it does not; the other failures can hit either way.
FetchChannelOutcomes ==
    IF remote = "None" THEN Exceptions
    ELSE {"ok", "Forbidden", "HTTPException", "TimeoutError"}

SendOutcomes == {"ok", "Forbidden", "HTTPException"}

(***************************************************************************)
(* The task of one event                                                   *)
(***************************************************************************)

\* gained: the channels the member of a member-update event gains access
\*     to.  The rest of what the event and the guild say about a channel
\*     (its kind, the two permission values, whether they can be computed)
\*     is read when the loop reaches the channel.
\* pc: "idle" (not delivered), "start", "fetch_member" (line 70), "detect"
\*     (the detector, for on_member_update the head of its loop),
\*     "fetch_channel" (line 49), "send" (line 56), "done" (returned),
\*     "raised" (an exception left the handler).
\* member: what the lookups of guild_is_watched said about the operator:
\*     "unknown" (not looked up), "pending" (awaiting fetch_member),
\*     "present" (in the member cache, or fetched), or the exception
\*     fetch_member raised.
\* watched: how the call of guild_is_watched ended: "uncalled", "True",
\*     "False", or "raised" when an exception left it.
\* about: the subject of the message relay was last called with: the
\*     channel of a gained access, NoChannel for the other messages.
\* failed: the channels of the loop whose permissions could not be computed
\*     (lines 104-105).
\* calls: calls of relay; attempts: calls of send; fetches, sends,
\*     resolved, log: the fetch_channel calls, the send calls, the class of
\*     ch and the log record of the latest call of relay.
\* fetched: some call of relay of this task has fetched the channel;
\*     wrongType: some call of relay of this task has dropped its message
\*     for the wrong type of ch.
\* late: the latest call of relay began after a fetch_channel call, of any
\*     task, had succeeded; afterDrop: the event was delivered after a call
\*     of relay, of any task, had dropped its message for the wrong type of
\*     ch.
IdleTask ==
    [type |-> "none", guild |-> 0, before |-> NoChannel, after |-> NoChannel,
     gained |-> {},
     pc |-> "idle", member |-> "unknown", watched |-> "uncalled",
     remaining |-> {}, about |-> NoChannel,
     notified |-> {}, failed |-> {}, outcome |-> "none", calls |-> 0,
     fetches |-> 0, sends |-> 0, attempts |-> 0, resolved |-> "None",
     log |-> "none", fetched |-> FALSE, wrongType |-> FALSE,
     late |-> FALSE, afterDrop |-> FALSE]

Finished(r) == r.pc \in {"done", "raised"}

InFlight(r) == r.pc \notin {"idle", "done", "raised"}

RunnableInTurn(e) ==
    /\ InFlight(handlers[e])
    /\ \A d \in Events : d < e => Finished(handlers[d])

\* The event loop runs the task of event e whenever the call it awaits has
\* ended: the handlers take no lock and wait in no queue.
Runnable(e) == InFlight(handlers[e])

AllowlistNeverRejects(g) == FALSE

\* Line 63.
AllowlistRejects(g) == watchGuilds # {} /\ g \notin watchGuilds

MemberCachedIgnored(me) == FALSE

\* Lines 66-68: me is what guild.get_member gave; `if me: return True`.
MemberCached(me) == me

\* Line 72: except (discord.NotFound, discord.Forbidden, discord.HTTPException).
FetchMemberCaught(exc) == exc \in {"NotFound", "Forbidden", "HTTPException"}

\* Line 50: except Exception.
FetchChannelCaught(exc) == exc \in Exceptions

WatchedAfterFetchFailOpen(o) == o \in {"ok", "NotFound"}

\* Lines 69-73: what guild_is_watched returns once fetch_member has ended
\* with outcome o, for the outcomes its except clause covers.
WatchedAfterFetch(o) == o = "ok"

\* Line 57: except discord.Forbidden.
SendCaught(exc) == exc = "Forbidden"

IsPostableAnyChannel(kind) == kind # "None"

\* Line 54: isinstance(ch, discord.TextChannel).
IsPostable(kind) == kind = "TextChannel"

\* Line 99: isinstance(ch, (TextChannel, ForumChannel, CategoryChannel)).
IsListable(kind) == kind \in {"TextChannel", "ForumChannel", "CategoryChannel"}

\* Line 106: not before_can and after_can.
GainedAccess(v) == ~v.before_can /\ v.after_can

in_watch_unset(vch) == vch = NoChannel \/ vch \in watchVoice

\* Line 115: def in_watch(vch).
in_watch(vch) == vch # NoChannel /\ vch \in watchVoice

\* Lines 117-123: the message on_voice_state_update relays, "none" for none.
VoiceOutcome(b, a) ==
    IF a = b THEN "none"
    ELSE IF in_watch(a) /\ ~in_watch(b) THEN "joined voice"
    ELSE IF in_watch(b) /\ ~in_watch(a) THEN "left voice"
    ELSE IF in_watch(b) /\ in_watch(a) THEN "moved voice"
    ELSE "none"

FeatureNeverDisabled(r) == FALSE

\* Lines 95 and 112: the handler returns before guild_is_watched is called.
FeatureDisabled(r) ==
    \/ r.type = "update" /\ watchText = {}
    \/ r.type = "voice" /\ watchVoice = {}

\* Line 49 binds the fetched channel to the local name ch; nothing of
\* relay writes the client's channel cache.
CacheAfterFetch(cache, fetched) == cache

OnPermissionErrorRaises(r, c) == [r EXCEPT !.failed = @ \cup {c}, !.pc = "raised"]

\* Lines 104-105: permissions_for or the read of view_channel raised;
\* except Exception: continue.
OnPermissionError(r, c) == [r EXCEPT !.failed = @ \cup {c}]

CacheAfterFailedFetchRemembered(cache) == "Unavailable"

\* Lines 50-52: a failed fetch is logged and relay returns; nothing is kept.
CacheAfterFailedFetch(cache) == cache

\* guild_is_watched returned True: the handler goes on to its detector.
ToDetect(r) ==
    [r EXCEPT !.watched = "True", !.pc = "detect",
              !.remaining = IF r.type = "update" THEN watchText ELSE {}]

AfterRelayJoinRetries(r) ==
    [r EXCEPT !.pc = IF r.type = "update" THEN "detect"
                     ELSE IF r.type = "join" /\ r.log # "none" THEN "detect"
                     ELSE "done"]

\* relay returned: on_member_update goes on with its loop (line 97), the
\* other two handlers return.
AfterRelay(r) == [r EXCEPT !.pc = IF r.type = "update" THEN "detect" ELSE "done"]

OnSendForbiddenRaises(r) == [r EXCEPT !.log = "warning", !.pc = "raised"]

OnSendForbiddenRetry(r) == [r EXCEPT !.log = "warning", !.pc = "send"]

\* Lines 57-58: send raised Forbidden; relay logs a warning and returns.
OnSendForbidden(r) == AfterRelay([r EXCEPT !.log = "warning"])

\* Lines 54-60 up to the await of send: a text channel is sent to, anything
\* else is logged as an error and relay returns.
Resolve(r, kind) ==
    IF IsPostable(kind)
    THEN [r EXCEPT !.resolved = kind, !.pc = "send"]
    ELSE AfterRelay([r EXCEPT !.resolved = kind, !.log = "error", !.wrongType = TRUE])

SendTargetEventChannel(r) ==
    IF r.about # NoChannel THEN r.about
    ELSE IF r.after # NoChannel THEN r.after
    ELSE RELAY_CHANNEL_ID

\* Lines 45, 49 and 56: ch is what get_channel or fetch_channel gave for
\* RELAY_CHANNEL_ID, and send is called on ch.
SendTarget(r) == RELAY_CHANNEL_ID

\* The latest call of relay in task r fetched the channel (line 49).
FetchedOk(r) == r.fetches = 1 /\ r.resolved # "None"

\* The latest call of relay in task r found ch of the wrong type (line 60).
WrongTypeDrop(r) == r.log = "error" /\ r.resolved # "None"

\* Lines 45-49 up to the await of fetch_channel: a call of relay.
EnterRelay(r, subject) ==
    LET c == [r EXCEPT !.calls = @ + 1, !.about = subject, !.fetches = 0, !.sends = 0,
                       !.resolved = "None", !.log = "none",
                       !.late = \E d \in Events : handlers[d].fetched]
    IN  IF chCache = "None" THEN [c EXCEPT !.pc = "fetch_channel"]
        ELSE Resolve(c, chCache)

(***************************************************************************)
(* Initial state                                                           *)
(***************************************************************************)

\* The configurations the process is started with: no allowlist and one
\* channel of each kind watched; an allowlist of one community and every
\* channel watched; every community listed and both optional features off.
Deployments ==
    {[guilds |-> {}, text |-> {41}, voice |-> {98}],
     [guilds |-> {1}, text |-> TextChannelIds, voice |-> VoiceChannelIds],
     [guilds |-> GuildIds, text |-> {}, voice |-> {}]}

\* What RELAY_CHANNEL_ID can name on the platform.
RemoteKinds == {"TextChannel", "ForumChannel", "None"}

Init ==
    /\ \E d \in Deployments :
        /\ watchGuilds = d.guilds
        /\ watchText = d.text
        /\ watchVoice = d.voice
    /\ remote \in RemoteKinds
    /\ chCache \in {"None", remote}
    /\ handlers = [e \in Events |-> IdleTask]
    /\ delivered = 0
    /\ sendLog = <<>>

(***************************************************************************)
(* Actions                                                                 *)
(***************************************************************************)

\* The gateway dispatches an event: the client schedules its handler
\* (lines 86, 93, 110) as a new task.
Deliver(e, t, g, b, a, gn) ==
    /\ e = delivered + 1
    /\ e \in Events
    /\ handlers[e].pc = "idle"
    /\ t = "voice" \/ (b = NoChannel /\ a = NoChannel)
    /\ t = "update" \/ gn = {}
    /\ handlers' = [handlers EXCEPT ![e] =
            [IdleTask EXCEPT !.type = t, !.guild = g, !.before = b, !.after = a,
                             !.gained = gn, !.pc = "start", !.afterDrop = \E d \in Events : handlers[d].wrongType]]
    /\ delivered' = e
    /\ UNCHANGED <<config, chCache, sendLog>>

\* The handler runs from its first line to the await of fetch_member or to
\* the return of guild_is_watched (lines 88, 95, 112 and 63-68).
Start(e, me) ==
    LET r == handlers[e]
        m == [r EXCEPT !.member = IF me THEN "present" ELSE "pending"] IN
    /\ Runnable(e)
    /\ r.pc = "start"
    /\ handlers' = [handlers EXCEPT ![e] =
            IF FeatureDisabled(r) THEN [r EXCEPT !.pc = "done"]
            ELSE IF AllowlistRejects(r.guild) THEN [r EXCEPT !.watched = "False", !.pc = "done"]
            ELSE IF MemberCached(me) THEN ToDetect(m)
            ELSE [m EXCEPT !.pc = "fetch_member"]]
    /\ UNCHANGED <<config, chCache, delivered, sendLog>>

\* guild.fetch_member returns or raises (lines 69-73).
FetchMemberReturn(e, o) ==
    LET r == handlers[e]
        m == [r EXCEPT !.member = IF o = "ok" THEN "present" ELSE o] IN
    /\ Runnable(e)
    /\ r.pc = "fetch_member"
    /\ handlers' = [handlers EXCEPT ![e] =
            IF o # "ok" /\ ~FetchMemberCaught(o)
            THEN [m EXCEPT !.watched = "raised", !.pc = "raised"]
            ELSE IF WatchedAfterFetch(o) THEN ToDetect(m)
            ELSE [m EXCEPT !.watched = "False", !.pc = "done"]]
    /\ UNCHANGED <<config, chCache, delivered, sendLog>>

\* on_member_join past its scope check: line 90.
DetectJoin(e) ==
    LET r == handlers[e]
        s == EnterRelay([r EXCEPT !.outcome = "joined"], NoChannel) IN
    /\ Runnable(e)
    /\ r.pc = "detect" /\ r.type = "join"
    /\ handlers' = [handlers EXCEPT ![e] = s]
    /\ UNCHANGED <<config, chCache, delivered, sendLog>>

\* on_voice_state_update past its scope check: lines 117-123.
DetectVoice(e) ==
    LET r == handlers[e]
        o == VoiceOutcome(r.before, r.after)
        s == IF o = "none" THEN [r EXCEPT !.pc = "done"]
             ELSE EnterRelay([r EXCEPT !.outcome = o], NoChannel) IN
    /\ Runnable(e)
    /\ r.pc = "detect" /\ r.type = "voice"
    /\ handlers' = [handlers EXCEPT ![e] = s]
    /\ UNCHANGED <<config, chCache, delivered, sendLog>>

\* One iteration of the loop of on_member_update (lines 97-107) over the
\* next id of the set, or its end.  A set of ints is iterated in an order
\* the program does not choose: any order.
DetectUpdate(e) ==
    LET r == handlers[e] IN
    /\ Runnable(e)
    /\ r.pc = "detect" /\ r.type = "update"
    /\ IF r.remaining = {}
       THEN handlers' = [handlers EXCEPT ![e].pc = "done"]
       ELSE \E c \in r.remaining, v \in ChannelViews :
            LET n == [r EXCEPT !.remaining = @ \ {c}]
                s == IF ~IsListable(v.kind) THEN n
                     ELSE IF ~v.computes THEN OnPermissionError(n, c)
                     ELSE IF GainedAccess(v)
                          THEN EnterRelay([n EXCEPT !.notified = @ \cup {c}], c)
                          ELSE n
            IN  /\ Gains(v) <=> c \in r.gained
                /\ handlers' = [handlers EXCEPT ![e] = s]
    /\ UNCHANGED <<config, chCache, delivered, sendLog>>

\* client.fetch_channel returns or raises (lines 48-52), and relay goes on
\* to its type check.
FetchChannelReturn(e, o) ==
    LET r == handlers[e]
        f == [r EXCEPT !.fetches = @ + 1, !.fetched = @ \/ o = "ok"]
        s == IF o = "ok" THEN Resolve(f, remote)
             ELSE IF FetchChannelCaught(o) THEN AfterRelay([f EXCEPT !.log = "error"])
             ELSE [f EXCEPT !.pc = "raised"] IN
    /\ Runnable(e)
    /\ r.pc = "fetch_channel"
    /\ o \in FetchChannelOutcomes
    /\ handlers' = [handlers EXCEPT ![e] = s]
    /\ chCache' = IF o = "ok" THEN CacheAfterFetch(chCache, remote)
                  ELSE CacheAfterFailedFetch(chCache)
    /\ UNCHANGED <<config, delivered, sendLog>>

\* ch.send returns or raises (lines 55-58).
SendReturn(e, o) ==
    LET r == handlers[e]
        a == [r EXCEPT !.sends = @ + 1, !.attempts = @ + 1] IN
    /\ Runnable(e)
    /\ r.pc = "send"
    /\ handlers' = [handlers EXCEPT ![e] =
            IF o = "ok" THEN AfterRelay(a)
            ELSE IF SendCaught(o) THEN OnSendForbidden(a)
            ELSE [a EXCEPT !.pc = "raised"]]
    /\ sendLog' = IF o = "ok" THEN Append(sendLog, Message(e, r.about, SendTarget(r))) ELSE sendLog
    /\ UNCHANGED <<config, chCache, delivered>>

Next ==
    \/ \E e \in Events, t \in {"join", "update", "voice"}, g \in GuildIds,
          b \in VoiceRefs, a \in VoiceRefs, gn \in SUBSET TextChannelIds :
            Deliver(e, t, g, b, a, gn)
    \/ \E e \in Events, me \in BOOLEAN : Start(e, me)
    \/ \E e \in Events, o \in FetchMemberOutcomes : FetchMemberReturn(e, o)
    \/ \E e \in Events : DetectJoin(e)
    \/ \E e \in Events : DetectVoice(e)
    \/ \E e \in Events : DetectUpdate(e)
    \/ \E e \in Events, o \in Exceptions \cup {"ok"} : FetchChannelReturn(e, o)
    \/ \E e \in Events, o \in SendOutcomes : SendReturn(e, o)

Spec == Init /\ [][Next]_vars

\* The next step of the task of event e.
StepOf(e) ==
    \/ \E me \in BOOLEAN : Start(e, me)
    \/ \E o \in FetchMemberOutcomes : FetchMemberReturn(e, o)
    \/ DetectJoin(e) \/ DetectVoice(e) \/ DetectUpdate(e)
    \/ \E o \in FetchChannelOutcomes : FetchChannelReturn(e, o)
    \/ \E o \in SendOutcomes : SendReturn(e, o)

(***************************************************************************)
(* Properties                                                              *)
(***************************************************************************)

\* The messages of event e that were posted.
Posted(e) == {i \in DOMAIN sendLog : sendLog[i].event = e}

\* Task r has made no call of relay and no call of send.
NothingRelayed(r) ==
    /\ r.calls = 0 /\ r.attempts = 0
    /\ r.notified = {} /\ r.outcome = "none"
    /\ r.pc \notin {"fetch_channel", "send"}

\* The event of task r reports a transition of its kind however relay ends.
Qualifies(r) ==
    \/ r.type = "join"
    \/ r.type = "update" /\ r.gained \cap watchText # {}
    \/ r.type = "voice" /\ r.before # r.after
         /\ (r.before \in watchVoice \/ r.after \in watchVoice)

\* C1: an event of any type whose community is outside a non-empty
\* watched-community set makes no call of relay and no send.
OutsideAllowlistNoRelay ==
    \A e \in Events :
        LET r == handlers[e] IN
        (r.pc # "idle" /\ watchGuilds # {} /\ r.guild \notin watchGuilds)
            => (NothingRelayed(r) /\ Posted(e) = {})

\* Two qualifying events of different types, from a community outside the
\* allowlist, have both been handled.
OutsideAllowlistHandled ==
    /\ watchGuilds # {}
    /\ \A e \in Events :
        /\ handlers[e].pc = "done"
        /\ handlers[e].guild \notin watchGuilds
        /\ Qualifies(handlers[e])
    /\ handlers[1].type = "update"
    /\ handlers[2].type = "voice"

\* C2: when the operator is not a member of the community (not in the
\* member cache, and fetch_member fails) no call of relay is made, and no
\* handler is in or past relay unless guild_is_watched returned True.
NoRelayWithoutMembership ==
    \A e \in Events :
        LET r == handlers[e] IN
        /\ r.member \in Exceptions => (NothingRelayed(r) /\ Posted(e) = {})
        /\ ~NothingRelayed(r) => r.watched = "True"
        /\ r.pc = "detect" => r.watched = "True"

\* The handlers of a qualifying join and of a qualifying voice event have
\* both ended after fetch_member reported the operator missing.
OperatorMissingHandled ==
    /\ handlers[1].type = "join" /\ handlers[2].type = "voice"
    /\ \A e \in Events :
        /\ Finished(handlers[e])
        /\ Qualifies(handlers[e])
        /\ handlers[e].member \in {"NotFound", "HTTPException"}

\* C3: whichever way fetch_member fails (not found, forbidden, transport
\* failure or timeout), guild_is_watched returns False as a value.
FailClosedAsValue ==
    \A e \in Events :
        handlers[e].member \in Exceptions => handlers[e].watched = "False"

\* C4: relay never raises to its caller: no handler is ended by an
\* exception that comes out of a call of relay.
RelayNeverRaises ==
    \A e \in Events : ~(handlers[e].pc = "raised" /\ handlers[e].calls > 0)
\* C5: in an in-scope member-update event, a watched channel of a listable
\* kind is notified if and only if the member's view permission is false
\* before and true after.
AccessNotifiedIffGained ==
    \A e \in Events :
        LET r == handlers[e] IN
        (r.type = "update" /\ r.watched = "True" /\ Finished(r))
            => r.notified = r.gained \cap watchText

\* The outcome the voice rule gives for a move from b to a, an absent
\* channel counting as not watched.
VoiceRule(b, a) ==
    IF b = a THEN "none"
    ELSE CASE a \in watchVoice /\ b \notin watchVoice -> "joined voice"
           [] b \in watchVoice /\ a \notin watchVoice -> "left voice"
           [] b \in watchVoice /\ a \in watchVoice -> "moved voice"
           [] OTHER -> "none"

PastDetector(r) == r.watched = "True" /\ r.pc # "detect"

\* C6: an in-scope voice event with a non-empty voice watch set relays the
\* one outcome the watch-set rule selects, none when the channel is
\* unchanged or neither channel is watched, and calls relay at most once.
VoiceOneOutcome ==
    \A e \in Events :
        LET r == handlers[e] IN
        r.type = "voice" =>
            /\ r.calls <= 1
            /\ PastDetector(r) =>
                /\ r.outcome = VoiceRule(r.before, r.after)
                /\ r.calls = IF r.outcome = "none" THEN 0 ELSE 1

\* A move between two watched channels was relayed as one message, and an
\* update that left the member in the same watched channel as none.
VoiceOutcomesSeen ==
    /\ handlers[1].type = "voice" /\ handlers[2].type = "voice"
    /\ handlers[1].pc = "done" /\ handlers[1].outcome = "moved voice"
    /\ handlers[2].pc = "done" /\ PastDetector(handlers[2])
    /\ handlers[2].before = handlers[2].after
    /\ handlers[2].before \in watchVoice
    /\ handlers[2].outcome = "none" /\ handlers[2].calls = 0

\* C7: once a call of relay has fetched the channel, a later call
\* of relay hits the cache and makes no call of fetch_channel.
FetchedOnceThenCached ==
    \A e \in Events :
        handlers[e].late =>
            (handlers[e].pc # "fetch_channel" /\ handlers[e].fetches = 0)

\* The latest call of relay in task r gave its message up.
Dropped(r) ==
    /\ r.calls > 0
    /\ r.pc \in {"detect", "done", "raised"}
    /\ \/ r.log \in {"error", "warning"}
       \/ r.pc = "raised"

\* C8: a call of relay makes at most one call of fetch_channel and at most
\* one call of send, and a message that was dropped (failed fetch, wrong
\* type, failed send) is posted neither by that handler nor by a later one;
\* no message is posted twice.
AtMostOnceNoRetry ==
    /\ \A e \in Events :
        LET r == handlers[e] IN
        /\ r.fetches <= 1 /\ r.sends <= 1
        /\ r.attempts <= r.calls
        /\ Cardinality(Posted(e)) <= r.attempts
        /\ Dropped(r) => \A i \in DOMAIN sendLog : sendLog[i] # Message(e, r.about, RELAY_CHANNEL_ID)
    /\ \A i, j \in DOMAIN sendLog : sendLog[i] = sendLog[j] => i = j

\* The first event's message was dropped on a refused send, the second
\* event's handler has posted its own message since, and only that one.
DroppedStaysDropped ==
    /\ handlers[1].pc = "done" /\ handlers[1].log = "warning"
    /\ handlers[1].sends = 1
    /\ handlers[2].pc = "done" /\ Posted(2) # {}
    /\ Posted(1) = {}

\* The calls of relay the event of task r leads to when no call raises.
RelayCallsDue(r) ==
    IF r.type = "join" THEN 1
    ELSE IF r.type = "voice" THEN (IF Qualifies(r) THEN 1 ELSE 0)
    ELSE Cardinality(r.gained \cap watchText)

\* C9: when the output channel resolves, from the cache or by a fetch, to
\* an object that is no text channel, relay logs an error, sends nothing
\* and returns; events delivered afterwards are handled as usual, each
\* qualifying one reaching relay.
WrongTypeDropsAndGoesOn ==
    \A e \in Events :
        LET r == handlers[e] IN
        /\ (r.calls > 0 /\ r.resolved \notin {"None", "TextChannel"}) =>
                /\ r.log = "error"
                /\ r.sends = 0
                /\ r.pc \in {"detect", "done"}
                /\ \A i \in DOMAIN sendLog : sendLog[i] # Message(e, r.about, RELAY_CHANNEL_ID)
        /\ (r.afterDrop /\ r.watched = "True") =>
                /\ r.pc # "raised"
                /\ r.pc = "done" => r.calls = RelayCallsDue(r)

\* An event delivered after a wrong-type drop reached relay, which dropped
\* its message the same way.
HandledAfterWrongType ==
    \E e \in Events :
        /\ handlers[e].afterDrop
        /\ handlers[e].pc = "done"
        /\ handlers[e].calls > 0
        /\ handlers[e].log = "error"
        /\ handlers[e].resolved = "ForumChannel"

\* C10: the handlers of distinct events are not serialized: a task that is
\* in flight can always take its next step, whatever the tasks of the
\* events delivered before it are doing.
NotSerialized ==
    \A e \in Events : InFlight(handlers[e]) => ENABLED StepOf(e)

\* The message of a later event was posted before a message of an earlier
\* event.
PostedOutOfOrder ==
    \E i, j \in DOMAIN sendLog : i < j /\ sendLog[i].event > sendLog[j].event

\* C11: the first-access race on the empty cache is benign: the only calls
\* of fetch_channel that succeed are those of calls of relay that began
\* before any fetch had succeeded (one for each racing handler), each
\* gives the channel of the configured id, which is then the cached
\* value; and each message is sent at most once, to that channel, none
\* posted twice.
FirstAccessRaceBenign ==
    /\ \A e \in Events :
        LET r == handlers[e] IN
        /\ FetchedOk(r) =>
                (~r.late /\ r.resolved = remote /\ chCache = r.resolved)
        /\ r.fetches <= 1 /\ r.sends <= 1
        /\ Cardinality(Posted(e)) <= r.calls
    /\ \A i, j \in DOMAIN sendLog : sendLog[i] = sendLog[j] => i = j
    /\ \A i \in DOMAIN sendLog : sendLog[i].to = RELAY_CHANNEL_ID

\* C12: in on_member_update a failure to compute the permissions of one
\* watched channel skips that channel and nothing else: the step leaves the
\* handler at the head of its loop with the other channels still to come,
\* no call of relay made for the failed channel; the loop can go on; the
\* channels evaluated around the failed one are notified exactly when they
\* gained access, and a handler that returns has evaluated them all.
PermissionErrorSkipsOneChannel ==
    /\ [][\A e \in Events :
            handlers'[e].failed # handlers[e].failed =>
                /\ handlers'[e].pc = "detect"
                /\ handlers'[e].remaining =
                        handlers[e].remaining \ (handlers'[e].failed \ handlers[e].failed)
                /\ Cardinality(handlers'[e].failed \ handlers[e].failed) = 1
                /\ handlers'[e].calls = handlers[e].calls
                /\ handlers'[e].notified = handlers[e].notified]_vars
    /\ [](\A e \in Events :
            LET r == handlers[e] IN
            r.failed # {} =>
                /\ r.failed \cap (r.notified \cup r.remaining \cup r.gained) = {}
                /\ r.pc = "detect" => ENABLED DetectUpdate(e)
                /\ \A c \in watchText \ r.remaining :
                        c \in r.notified <=> c \in r.gained
                /\ r.pc = "done" =>
                        (r.remaining = {} /\ r.notified = r.gained \cap watchText))

\* The permissions of one watched channel could not be computed, and the
\* handler has gone on to the other channel and is sending its message.
SkippedOneRelayedNext ==
    \E e \in Events :
        LET r == handlers[e] IN
        /\ r.type = "update" /\ r.pc = "send"
        /\ r.failed # {} /\ r.remaining = {}
        /\ r.calls = 1 /\ r.about \in r.gained \ r.failed

\* C13: a member-update event in a watched community leads to one call of
\* relay for each watched channel of a listable kind whose view permission
\* went from false to true, whatever happened in the calls of relay made
\* for the other channels: when the handler has ended, the calls of relay
\* it made are as many as those channels, one for each.
OneMessagePerGainedChannel ==
    \A e \in Events :
        LET r == handlers[e] IN
        (r.type = "update" /\ r.watched = "True" /\ Finished(r)) =>
            /\ r.calls = Cardinality(r.gained \cap watchText)
            /\ \A c \in r.gained \cap watchText : c \in r.notified

\* C14: a member-update event when no text channel is watched, and a
\* voice-state event when no voice channel is watched, do nothing: no call
\* of relay, no send, and no lookup of the operator (neither get_member nor
\* fetch_member: guild_is_watched is not called), whatever the community
\* and whatever the event says changed.
DisabledFeatureNoOp ==
    \A e \in Events :
        LET r == handlers[e] IN
        (r.pc # "idle" /\ \/ r.type = "update" /\ watchText = {}
                          \/ r.type = "voice" /\ watchVoice = {}) =>
            /\ r.pc \in {"start", "done"}
            /\ r.watched = "uncalled" /\ r.member = "unknown"
            /\ NothingRelayed(r) /\ r.fetches = 0
            /\ Posted(e) = {}

\* With both features off, a member-update event that gained access to a
\* channel and a voice-state event that changed channel, both of a listed
\* community, have been handled.
DisabledEventsHandled ==
    /\ watchText = {} /\ watchVoice = {}
    /\ \E d, e \in Events :
        /\ handlers[d].type = "update" /\ handlers[d].pc = "done"
        /\ handlers[d].gained # {} /\ handlers[d].guild \in watchGuilds
        /\ handlers[e].type = "voice" /\ handlers[e].pc = "done"
        /\ handlers[e].before # handlers[e].after
        /\ handlers[e].guild \in watchGuilds

\* C15: a member-join event of a community in scope (the allowlist passes
\* and the operator is a member) leads to exactly one call of relay, with
\* no further condition, and a member-join event of a community out of
\* scope leads to none; a call that gave its message up is not made again.
JoinRelaysOnce ==
    \A e \in Events :
        LET r == handlers[e]
            listed == watchGuilds = {} \/ r.guild \in watchGuilds
        IN  r.type = "join" =>
            /\ r.calls <= 1 /\ r.attempts <= 1
            /\ (listed /\ r.member = "present" /\ r.pc # "detect") =>
                    (r.calls = 1 /\ r.outcome = "joined")
            /\ (~listed \/ r.member \in Exceptions) =>
                    (r.calls = 0 /\ NothingRelayed(r))
            /\ Cardinality(Posted(e)) <= 1

\* One join of a community in scope was relayed and dropped on a refused
\* send, and one join of a community outside the allowlist was ignored.
JoinsInAndOutOfScope ==
    \E d, e \in Events :
        /\ handlers[d].type = "join" /\ handlers[d].pc = "done"
        /\ handlers[d].member = "present"
        /\ handlers[d].calls = 1 /\ handlers[d].log = "warning"
        /\ handlers[e].type = "join" /\ handlers[e].pc = "done"
        /\ watchGuilds # {} /\ handlers[e].guild \notin watchGuilds
        /\ handlers[e].calls = 0

\* C16: guild_is_watched calls fetch_member only when the community passes
\* the allowlist and get_member found no operator, and then once: the call
\* begins in the handler's first step and never again; an allowlist
\* rejection returns False and a hit of the member cache returns True with
\* no remote call; and the steps of guild_is_watched leave the
\* configuration, the channel cache and what was posted as they were.
FetchMemberOnlyOnMiss ==
    /\ [](\A e \in Events :
            LET r == handlers[e]
                listed == watchGuilds = {} \/ r.guild \in watchGuilds
            IN  /\ r.pc = "fetch_member" =>
                    (listed /\ r.member = "pending" /\ r.watched = "uncalled")
                /\ r.member \in Exceptions \cup {"pending"} => listed
                /\ (~listed /\ r.watched # "uncalled") =>
                    (r.watched = "False" /\ r.member = "unknown"))
    /\ [][\A e \in Events :
            LET r == handlers[e]
                n == handlers'[e]
            IN  /\ (n.pc = "fetch_member" /\ r.pc # "fetch_member") => r.pc = "start"
                /\ (n.pc = "start" /\ r.pc # "start") => r.pc = "idle"
                /\ (r.pc = "fetch_member" /\ n # r) =>
                        (n.pc \notin {"start", "fetch_member"} /\ n.member # "pending")
                /\ (r.pc = "start" /\ n.pc = "detect") =>
                        (n.member = "present" /\ n.watched = "True")
                /\ (r.pc \in {"start", "fetch_member"} /\ n # r) =>
                        UNCHANGED <<config, chCache, sendLog>>]_vars

\* One event of a community outside the allowlist was turned down with no
\* lookup of the operator, and one event of a listed community was turned
\* down after the one call of fetch_member found no member.
RejectedWithAndWithoutLookup ==
    \E d, e \in Events :
        /\ watchGuilds # {} /\ handlers[d].guild \notin watchGuilds
        /\ handlers[d].watched = "False" /\ handlers[d].member = "unknown"
        /\ handlers[e].guild \in watchGuilds
        /\ handlers[e].watched = "False" /\ handlers[e].member = "NotFound"

\* C17: whatever the remote calls of a handler return or raise, the
\* handler runs to its end and returns: no exception leaves a handler.
NoHandlerRaises ==
    \A e \in Events :
        /\ handlers[e].pc # "raised"
        /\ handlers[e].watched # "raised"

\* C18: in on_member_update a send refused with Forbidden is absorbed in
\* relay: the step leaves the handler at the head of its loop, the
\* channels still to come untouched and nothing posted; the loop can go
\* on; and a handler that returned after a refused send has evaluated
\* every watched channel and called relay for each one that gained access.
ForbiddenSendLoopGoesOn ==
    /\ [][\A e \in Events :
            LET r == handlers[e]
                n == handlers'[e]
            IN  (r.type = "update" /\ r.pc = "send" /\ n # r /\ n.log = "warning") =>
                    /\ n.pc = "detect"
                    /\ n.remaining = r.remaining
                    /\ n.notified = r.notified /\ n.calls = r.calls
                    /\ sendLog' = sendLog]_vars
    /\ [](\A e \in Events :
            LET r == handlers[e] IN
            (r.type = "update" /\ r.log = "warning") =>
                /\ r.pc \in {"detect", "done"}
                /\ r.pc = "detect" => ENABLED DetectUpdate(e)
                /\ r.pc = "done" =>
                    /\ r.remaining = {}
                    /\ r.notified = r.gained \cap watchText
                    /\ r.calls = Cardinality(r.gained \cap watchText))
    /\ [](\A e \in Events :
            LET r == handlers[e] IN
            (r.type = "update" /\ r.pc = "done"
                /\ Cardinality(Posted(e)) < r.attempts) =>
                    r.calls = Cardinality(r.gained \cap watchText))

\* The send for the first of two gained channels was refused, and the
\* handler went on to the second channel and posted its message.
RefusedThenPosted ==
    \E e \in Events :
        LET r == handlers[e] IN
        /\ r.type = "update" /\ r.pc = "done"
        /\ r.calls = 2 /\ r.attempts = 2
        /\ r.log = "none"
        /\ Cardinality(Posted(e)) = 1
        /\ \E i \in Posted(e) : sendLog[i].about = r.about

\* The latest call of relay in task r gave its message up on a failed fetch.
FetchFailed(r) == r.fetches = 1 /\ r.resolved = "None" /\ r.log = "error"

\* C19: a failed fetch of the output channel is not remembered: the step in
\* which fetch_channel fails leaves the cache as it was, a miss; after it
\* every call of relay still finds the miss and makes its own call of
\* fetch_channel, and that call can succeed when the channel exists, after
\* which the message is sent.
FailedFetchNotRemembered ==
    /\ [][\A e \in Events :
            LET r == handlers[e]
                n == handlers'[e]
            IN  (r.pc = "fetch_channel" /\ n # r /\ n.resolved = "None") =>
                    (chCache' = chCache /\ chCache' = "None")]_vars
    /\ [](\A d \in Events :
            FetchFailed(handlers[d]) =>
                /\ chCache = "None"
                /\ \A e \in Events :
                    LET r == handlers[e] IN
                    /\ r.calls > 0 => (r.pc = "fetch_channel" \/ r.fetches = 1)
                    /\ (r.pc = "fetch_channel" /\ remote # "None") =>
                            ENABLED FetchChannelReturn(e, "ok")
                    /\ (FetchedOk(r) /\ r.resolved = "TextChannel") =>
                            (r.pc = "send" \/ r.sends = 1))

\* The fetch for the first of two messages of one event failed and the
\* message was dropped; the call of relay for the second message fetched
\* the channel and posted it.
DeliveredAfterFailedFetch ==
    \E e \in Events :
        LET r == handlers[e] IN
        /\ chCache = "None" /\ remote = "TextChannel"
        /\ r.type = "update" /\ r.pc = "done"
        /\ r.calls = 2 /\ r.attempts = 1
        /\ FetchedOk(r) /\ r.log = "none"
        /\ Cardinality(Posted(e)) = 1
        /\ \E i \in Posted(e) : sendLog[i].about = r.about

\* C20: every send is made on the channel that RELAY_CHANNEL_ID resolved
\* to, and only when that object is a text channel: every posted message
\* went to that id, never to the channel its event is about or happened
\* in, and a task that is sending or has sent holds a text channel that
\* the cache or the platform gave for that id.
SingleDestination ==
    /\ \A i \in DOMAIN sendLog :
        LET r == handlers[sendLog[i].event] IN
        /\ sendLog[i].to = RELAY_CHANNEL_ID
        /\ sendLog[i].to \notin {sendLog[i].about, r.before, r.after}
        /\ sendLog[i].to \notin TextChannelIds \cup VoiceChannelIds
    /\ \A e \in Events :
        LET r == handlers[e] IN
        /\ (r.pc = "send" \/ r.sends = 1) => r.resolved = "TextChannel"
        /\ r.attempts > 0 => "TextChannel" \in {chCache, remote}
        /\ Posted(e) # {} => r.attempts > 0

\* A message about a gained text channel and a message about a voice
\* channel were both posted, each to the output channel.
PostedBothToRelayChannel ==
    \E i, j \in DOMAIN sendLog :
        /\ sendLog[i].about \in TextChannelIds
        /\ handlers[sendLog[j].event].type = "voice"
        /\ sendLog[i].to = RELAY_CHANNEL_ID
        /\ sendLog[j].to = RELAY_CHANNEL_ID

====
